---- MODULE Spec2Model ----
(***************************************************************************)
(* Model of src/src/App.jsx: the page-level state of the outreach          *)
(* dashboard (React useState cells), its event handlers, and the fetch     *)
(* wrapper useBackend.get / useBackend.post.                               *)
(*                                                                         *)
(* One action is one event-loop task together with the microtasks it       *)
(* triggers: a user event (click, input change), the mount effect, or the  *)
(* arrival of a response's headers or body.  An async handler is split at  *)
(* the awaits that wait for the network (fetch, r.text(), r.json()); the   *)
(* code between two such awaits runs in one action.  A suspended handler   *)
(* is represented by its outstanding request in `network`, which records   *)
(* the handler, its caller and the values its closure captured.            *)
(*                                                                         *)
(* Strings built with template literals are modelled as sequences of       *)
(* tokens, so that "the message contains the status code" is a property    *)
(* of the message and not of how it was produced.                          *)
(***************************************************************************)
EXTENDS Integers, Sequences, FiniteSets, TLC

VARIABLES tab, status, ws, prospect, gen, preview, loadingGen,
          campaign, campaigns, loadingCampaigns,
          mounted, network, events

vars == <<tab, status, ws, prospect, gen, preview, loadingGen,
          campaign, campaigns, loadingCampaigns,
          mounted, network, events>>

\* Everything except `status`, the request bookkeeping and the two loading flags.
formState == <<ws, prospect, gen, preview, campaign, campaigns>>

----------------------------------------------------------------------------
(* Bounds of the model *)

\* Number of user events (tab selections, input changes, button clicks) in a
\* behaviour of the whole page.
MaxEvents == 3
\* Number of user events in a behaviour of the campaign form alone.
MaxFormEvents == 6

----------------------------------------------------------------------------
(* Values *)

Tabs == {"onboarding", "generator", "campaigns", "analytics"}

\* Text a user types into an input (e.target.value).
Typed == {"a"}

\* Text of the number input "Day offset" and its conversion Number(e.target.value).
DayTyped == {"", "7"}
Number(str) == CASE str = "" -> 0
                 [] str = "7" -> 7

EventTypes == {"campaign_viewed", "email_sent", "reply_received"}

\* HTTP status codes the backend answers with; r.ok is status in 200..299.
Codes == {200, 404, 500}
ok(code) == code \in 200..299

\* `${r.status}`: the decimal rendering of the status code.
String(code) == CASE code = 200 -> "200"
                    [] code = 404 -> "404"
                    [] code = 500 -> "500"

\* Response bodies.  A 2xx answer carries the JSON document of the endpoint
\* (section EXTERNAL INTERFACES) or text that is not JSON; any other answer
\* carries an error text, possibly empty.
ErrorTexts == {"", "detail"}
NotJson == "<html>"
JsonTexts(method, path) ==
    IF method = "GET" THEN {"[]", "[{c1}]"}
    ELSE IF path = "/generate" THEN {"{subject,body}"}
    ELSE IF path = "/workspaces" THEN {"{id:w1}", "{id:w2}"}
    ELSE {"{id:x1}"}

\* r.json(): the value of a JSON text; NotJson does not parse.
parses(text) == text # NotJson
JsonParse(text) ==
    CASE text = "[]" -> <<>>
      [] text = "[{c1}]" -> <<[_id |-> "c1", name |-> "n", workspace_id |-> "w1"]>>
      [] text = "{subject,body}" -> [subject |-> "S", body |-> "B"]
      [] text = "{id:w1}" -> [id |-> "w1"]
      [] text = "{id:w2}" -> [id |-> "w2"]
      [] text = "{id:x1}" -> [id |-> "x1"]

\* The backend's answers to a request: a status code and a body.  readable says
\* whether the body could be read: r.text() and r.json() reject when the
\* connection breaks while the body arrives, and the text is then never seen.
Responses(method, path) ==
    {[code |-> c, text |-> t, readable |-> TRUE] :
        c \in {c \in Codes : ok(c)}, t \in JsonTexts(method, path) \cup {NotJson}}
    \cup {[code |-> c, text |-> t, readable |-> TRUE] :
        c \in {c \in Codes : ~ok(c)}, t \in ErrorTexts}
    \cup {[code |-> c, text |-> "", readable |-> FALSE] : c \in Codes}

\* A message m contains the text t (the empty text is contained in every message).
Contains(m, t) == t = "" \/ \E i \in DOMAIN m : m[i] = t

----------------------------------------------------------------------------
(* useBackend: the error messages of get and post *)

\* Variant: the status left out of the message.
getErrorNoStatus(path, resp) == <<"GET", path, "failed">>

\* new Error(`GET ${path} failed: ${r.status}`)
getError(path, resp) == <<"GET", path, "failed:", String(resp.code)>>

\* new Error(`POST ${path} failed: ${r.status} ${msg}`)
postError(path, resp, msg) == <<"POST", path, "failed:", String(resp.code), msg>>

\* fetch rejects (network failure): TypeError with the browser's message.
FetchFailure == <<"Failed to fetch">>
\* r.json() rejects on text that is not JSON: SyntaxError.
JsonFailure == <<"Unexpected token">>

\* An outstanding request: the call of get/post, with the suspended handler.
Request(a, h, caller, method, path, body) ==
    [action |-> a, handler |-> h, caller |-> caller, method |-> method,
     path |-> path, body |-> body]

get(a, h, caller, path) == Request(a, h, caller, "GET", path, <<>>)
post(a, h, caller, path, body) == Request(a, h, caller, "POST", path, <<body>>)

----------------------------------------------------------------------------
(* Initial state: the useState initial values, before the mount effect *)

firstStep == [day_offset |-> 0, subject |-> "", body |-> ""]

Init ==
    /\ tab = "onboarding"
    /\ status = <<>>
    /\ ws = [name |-> "", owner_email |-> ""]
    /\ prospect = [email |-> "", first_name |-> "", last_name |-> "",
                   company |-> "", title |-> ""]
    /\ gen = [product |-> "", audience |-> "", tone |-> "friendly",
              call_to_action |-> "Book a quick call?"]
    /\ preview = <<>>
    /\ loadingGen = FALSE
    /\ campaign = [name |-> "", workspace_id |-> "", sequence |-> <<firstStep>>]
    /\ campaigns = <<>>
    /\ loadingCampaigns = FALSE
    /\ mounted = FALSE
    /\ network = {}
    /\ events = 0

----------------------------------------------------------------------------
(* Local edits: tab selection and the controlled inputs *)

\* A user event on a control that is rendered while tab t is selected.
canEdit(t) == mounted /\ tab = t


\* TabNav: onClick={() => setCurrent(t.id)}
setTab(t) ==
    /\ mounted
    /\ tab' = t
    /\ events' = events + 1
    /\ UNCHANGED <<status, ws, prospect, gen, preview, loadingGen, campaign,
                   campaigns, loadingCampaigns, mounted, network>>

\* onChange={e=>setWs({...ws, [field]: e.target.value})}
editWs(field, v) ==
    /\ canEdit("onboarding")
    /\ ws' = [ws EXCEPT ![field] = v]
    /\ events' = events + 1
    /\ UNCHANGED <<tab, status, prospect, gen, preview, loadingGen, campaign,
                   campaigns, loadingCampaigns, mounted, network>>

\* onChange={e=>setProspect({...prospect, [field]: e.target.value})}
editProspect(field, v) ==
    /\ canEdit("onboarding")
    /\ prospect' = [prospect EXCEPT ![field] = v]
    /\ events' = events + 1
    /\ UNCHANGED <<tab, status, ws, gen, preview, loadingGen, campaign,
                   campaigns, loadingCampaigns, mounted, network>>

\* onChange={e=>setGen({...gen, [field]: e.target.value})}
editGen(field, v) ==
    /\ canEdit("generator")
    /\ gen' = [gen EXCEPT ![field] = v]
    /\ events' = events + 1
    /\ UNCHANGED <<tab, status, ws, prospect, preview, loadingGen, campaign,
                   campaigns, loadingCampaigns, mounted, network>>

\* Every edit of the campaign form replaces `campaign` and nothing else.
editCampaign(c) ==
    /\ canEdit("campaigns")
    /\ campaign' = c
    /\ events' = events + 1
    /\ UNCHANGED <<tab, status, ws, prospect, gen, preview, loadingGen,
                   campaigns, loadingCampaigns, mounted, network>>

\* onChange={e=>setCampaign({...campaign, name: e.target.value})}
editName(v) == canEdit("campaigns") /\ editCampaign([campaign EXCEPT !.name = v])

\* onChange={e=>setCampaign({...campaign, workspace_id: e.target.value})}
editWorkspaceId(v) ==
    canEdit("campaigns") /\ editCampaign([campaign EXCEPT !.workspace_id = v])

\* c.sequence.at(-1)?.day_offset ?? 0
lastDayOffset(seq) == IF Len(seq) = 0 THEN 0 ELSE seq[Len(seq)].day_offset

\* c => ({...c, sequence: [...c.sequence, { day_offset: (...)+2, subject: '', body: '' }]})
addStepUpdater(c) ==
    [c EXCEPT !.sequence =
        Append(c.sequence,
               [day_offset |-> lastDayOffset(c.sequence) + 2, subject |-> "", body |-> ""])]

addStep == editCampaign(addStepUpdater(campaign))

\* seq.filter((_,i)=>i!==idx), i counting from 0; from position i on.
RECURSIVE filterNot(_, _, _)
filterNot(seq, i, idx) ==
    IF i >= Len(seq) THEN <<>>
    ELSE (IF i # idx THEN <<seq[i + 1]>> ELSE <<>>) \o filterNot(seq, i + 1, idx)

\* Variant: the index taken to count from 1.
removeStepUpdaterOffByOne(c, idx) == [c EXCEPT !.sequence = filterNot(c.sequence, 0, idx + 1)]

\* c => ({...c, sequence: c.sequence.filter((_,i)=>i!==idx)})
removeStepUpdater(c, idx) == [c EXCEPT !.sequence = filterNot(c.sequence, 0, idx)]

\* The Remove button of the step rendered at index idx.
removeStep(idx) ==
    /\ idx \in 0..(Len(campaign.sequence) - 1)
    /\ editCampaign(removeStepUpdater(campaign, idx))

\* seq[idx] = {...seq[idx], [field]: val}
stepUpdater(c, idx, field, val) ==
    [c EXCEPT !.sequence[idx + 1] = [c.sequence[idx + 1] EXCEPT ![field] = val]]

editDayOffset(idx, str) ==
    /\ idx \in 0..(Len(campaign.sequence) - 1)
    /\ editCampaign(stepUpdater(campaign, idx, "day_offset", Number(str)))

editStepText(idx, field, v) ==
    /\ canEdit("campaigns")
    /\ idx \in 0..(Len(campaign.sequence) - 1)
    /\ editCampaign(stepUpdater(campaign, idx, field, v))

----------------------------------------------------------------------------
(* Handlers: from the click to the first await *)

canStart(t) == canEdit(t)

\* The action a click starts is numbered by the event; the mount effect is action 0.
thisAction == events + 1

\* Variant: the loading flag not raised.
loadCampaignsCallNoFlag(net, a, caller) ==
    /\ loadingCampaigns' = loadingCampaigns
    /\ network' = net \cup {get(a, "loadCampaigns", caller, "/campaigns")}

\* loadCampaigns up to `await get('/campaigns')`, called by `caller` in action a,
\* with `net` the requests that remain outstanding.
loadCampaignsCall(net, a, caller) ==
    /\ loadingCampaigns' = TRUE
    /\ network' = net \cup {get(a, "loadCampaigns", caller, "/campaigns")}

\* useEffect(() => { loadCampaigns() }, [])
mount ==
    /\ ~mounted
    /\ mounted' = TRUE
    /\ loadCampaignsCall(network, 0, "none")
    /\ UNCHANGED <<tab, status, ws, prospect, gen, preview, loadingGen, campaign,
                   campaigns, events>>

\* <Button onClick={loadCampaigns}>Refresh</Button>
loadCampaigns ==
    /\ canStart("campaigns")
    /\ loadCampaignsCall(network, thisAction, "none")
    /\ events' = events + 1
    /\ UNCHANGED <<tab, status, ws, prospect, gen, preview, loadingGen, campaign,
                   campaigns, mounted>>

submitWorkspace ==
    /\ canStart("onboarding")
    /\ status' = <<"Creating workspace...">>
    /\ network' = network \cup {post(thisAction, "submitWorkspace", "none", "/workspaces", ws)}
    /\ events' = events + 1
    /\ UNCHANGED <<tab, ws, prospect, gen, preview, loadingGen, campaign,
                   campaigns, loadingCampaigns, mounted>>

submitProspect ==
    /\ canStart("onboarding")
    /\ status' = <<"Adding prospect...">>
    /\ network' = network \cup {post(thisAction, "submitProspect", "none", "/prospects", prospect)}
    /\ events' = events + 1
    /\ UNCHANGED <<tab, ws, prospect, gen, preview, loadingGen, campaign,
                   campaigns, loadingCampaigns, mounted>>

\* Variant: the button never disabled.
generateAlwaysEnabled == TRUE

\* <Button onClick={generateEmail} disabled={loadingGen}>
generateEnabled == ~loadingGen

generateEmail ==
    /\ canStart("generator")
    /\ generateEnabled
    /\ loadingGen' = TRUE
    /\ status' = <<"Generating email...">>
    /\ network' = network \cup {post(thisAction, "generateEmail", "none", "/generate", gen)}
    /\ events' = events + 1
    /\ UNCHANGED <<tab, ws, prospect, gen, preview, campaign,
                   campaigns, loadingCampaigns, mounted>>

\* Variant: the list reloaded without awaiting the POST.
submitCampaignNoAwait ==
    /\ canStart("campaigns")
    /\ status' = <<"Creating campaign...">>
    /\ loadCampaignsCall(
          network \cup {post(thisAction, "submitCampaign", "none", "/campaigns", campaign)},
          thisAction, "submitCampaign")
    /\ events' = events + 1
    /\ UNCHANGED <<tab, ws, prospect, gen, preview, loadingGen, campaign,
                   campaigns, mounted>>

submitCampaign ==
    /\ canStart("campaigns")
    /\ status' = <<"Creating campaign...">>
    /\ network' = network \cup {post(thisAction, "submitCampaign", "none", "/campaigns", campaign)}
    /\ events' = events + 1
    /\ UNCHANGED <<tab, ws, prospect, gen, preview, loadingGen, campaign,
                   campaigns, loadingCampaigns, mounted>>

trackEvent(type) ==
    /\ canStart("analytics")
    /\ network' = network \cup {post(thisAction, "trackEvent", "none", "/events",
                                     [type |-> type, properties |-> [page |-> "dashboard"]])}
    /\ events' = events + 1
    /\ UNCHANGED <<tab, status, ws, prospect, gen, preview, loadingGen, campaign,
                   campaigns, loadingCampaigns, mounted>>

----------------------------------------------------------------------------
(* Handlers: after the awaited get/post settles.  req is the request the   *)
(* handler waited for; it is no longer outstanding.                        *)

done(req) == network \ {req}

\* loadCampaigns: setCampaigns(items); finally setLoadingCampaigns(false).
\* When called from submitCampaign, that handler then returns.
loadCampaignsThen(req, items) ==
    /\ campaigns' = items
    /\ loadingCampaigns' = FALSE
    /\ network' = done(req)
    /\ UNCHANGED <<tab, status, ws, prospect, gen, preview, loadingGen, campaign,
                   mounted, events>>

\* Variant: the list emptied when loading fails.
loadCampaignsCatchClears(req, message) ==
    /\ status' = message
    /\ campaigns' = <<>>
    /\ loadingCampaigns' = FALSE
    /\ network' = done(req)
    /\ UNCHANGED <<tab, ws, prospect, gen, preview, loadingGen, campaign, mounted, events>>

\* loadCampaigns: catch (e) { setStatus(e.message) } finally { setLoadingCampaigns(false) }
loadCampaignsCatch(req, message) ==
    /\ status' = message
    /\ loadingCampaigns' = FALSE
    /\ network' = done(req)
    /\ UNCHANGED <<tab, ws, prospect, gen, preview, loadingGen, campaign,
                   campaigns, mounted, events>>

\* Variant: the campaign rebuilt from its initial value instead of from c.
workspaceUpdaterReset(c, r) == [name |-> "", workspace_id |-> r.id, sequence |-> <<firstStep>>]

\* c => ({...c, workspace_id: r.id})
workspaceUpdater(c, r) == [c EXCEPT !.workspace_id = r.id]

submitWorkspaceThen(req, r) ==
    /\ status' = <<"Workspace created:", r.id>>
    /\ campaign' = workspaceUpdater(campaign, r)
    /\ network' = done(req)
    /\ UNCHANGED <<tab, ws, prospect, gen, preview, loadingGen,
                   campaigns, loadingCampaigns, mounted, events>>

submitProspectThen(req, r) ==
    /\ status' = <<"Prospect added:", r.id>>
    /\ network' = done(req)
    /\ UNCHANGED <<tab, ws, prospect, gen, preview, loadingGen, campaign,
                   campaigns, loadingCampaigns, mounted, events>>

generateEmailThen(req, r) ==
    /\ preview' = <<r>>
    /\ status' = <<"Generated!">>
    /\ loadingGen' = FALSE
    /\ network' = done(req)
    /\ UNCHANGED <<tab, ws, prospect, gen, campaign,
                   campaigns, loadingCampaigns, mounted, events>>

\* generateEmail: catch (e) { setStatus(e.message) } finally { setLoadingGen(false) }
generateEmailCatch(req, message) ==
    /\ status' = message
    /\ loadingGen' = FALSE
    /\ network' = done(req)
    /\ UNCHANGED <<tab, ws, prospect, gen, preview, campaign,
                   campaigns, loadingCampaigns, mounted, events>>

\* Variant: the list not reloaded.
submitCampaignThenNoReload(req, r) ==
    /\ status' = <<"Campaign created:", r.id>>
    /\ network' = done(req)
    /\ UNCHANGED <<tab, ws, prospect, gen, preview, loadingGen, campaign,
                   campaigns, loadingCampaigns, mounted, events>>

\* submitCampaign: setStatus(`Campaign created: ${r.id}`); await loadCampaigns()
submitCampaignThen(req, r) ==
    /\ status' = <<"Campaign created:", r.id>>
    /\ loadCampaignsCall(done(req), req.action, "submitCampaign")
    /\ UNCHANGED <<tab, ws, prospect, gen, preview, loadingGen, campaign,
                   campaigns, mounted, events>>

trackEventThen(req, r) ==
    /\ status' = <<"Tracked", req.body[1].type>>
    /\ network' = done(req)
    /\ UNCHANGED <<tab, ws, prospect, gen, preview, loadingGen, campaign,
                   campaigns, loadingCampaigns, mounted, events>>

\* catch (e) { setStatus(e.message) } of submitWorkspace, submitProspect,
\* submitCampaign and trackEvent.
statusCatch(req, message) ==
    /\ status' = message
    /\ network' = done(req)
    /\ UNCHANGED <<tab, ws, prospect, gen, preview, loadingGen, campaign,
                   campaigns, loadingCampaigns, mounted, events>>

\* The awaited call returned value.
resolve(req, value) ==
    CASE req.handler = "loadCampaigns"   -> loadCampaignsThen(req, value)
      [] req.handler = "submitWorkspace" -> submitWorkspaceThen(req, value)
      [] req.handler = "submitProspect"  -> submitProspectThen(req, value)
      [] req.handler = "generateEmail"   -> generateEmailThen(req, value)
      [] req.handler = "submitCampaign"  -> submitCampaignThen(req, value)
      [] req.handler = "trackEvent"      -> trackEventThen(req, value)

\* The awaited call threw an error with this message.
reject(req, message) ==
    CASE req.handler = "loadCampaigns" -> loadCampaignsCatch(req, message)
      [] req.handler = "generateEmail" -> generateEmailCatch(req, message)
      [] OTHER                         -> statusCatch(req, message)

----------------------------------------------------------------------------
(* useBackend.get / useBackend.post after `await fetch(...)` *)

\* get: if (!r.ok) throw new Error(...); return r.json()
getThrows(resp) == ~ok(resp.code) \/ ~resp.readable \/ ~parses(resp.text)
getMessage(path, resp) ==
    IF ~ok(resp.code) THEN getError(path, resp)
    ELSE IF ~resp.readable THEN FetchFailure
    ELSE JsonFailure

\* post: if (!r.ok) { let msg = await r.text().catch(()=>''); throw new Error(...) }
\*       return r.json()
postThrows(resp) == ~ok(resp.code) \/ ~resp.readable \/ ~parses(resp.text)
postMessage(path, resp) ==
    IF ~ok(resp.code) THEN postError(path, resp, IF resp.readable THEN resp.text ELSE "")
    ELSE IF ~resp.readable THEN FetchFailure
    ELSE JsonFailure

throws(req, resp) ==
    IF req.method = "GET" THEN getThrows(resp) ELSE postThrows(resp)
message(req, resp) ==
    IF req.method = "GET" THEN getMessage(req.path, resp) ELSE postMessage(req.path, resp)

\* fetch rejects: the request got no answer (network failure).
fetchRejects(req) == reject(req, FetchFailure)

\* The backend answers req with resp, and the awaiting handler continues.
respond(req, resp) ==
    IF throws(req, resp)
    THEN reject(req, message(req, resp))
    ELSE resolve(req, JsonParse(resp.text))

----------------------------------------------------------------------------
(* The whole page: any user event while the event budget lasts, the mount  *)
(* effect, and the backend's answers in any order.                         *)

budget == events < MaxEvents

Next ==
    \/ mount
    \/ budget /\ \E t \in Tabs : setTab(t)
    \/ budget /\ \E f \in DOMAIN ws, v \in Typed : editWs(f, v)
    \/ budget /\ \E f \in DOMAIN prospect, v \in Typed : editProspect(f, v)
    \/ budget /\ \E f \in DOMAIN gen, v \in Typed : editGen(f, v)
    \/ budget /\ \E v \in Typed : editName(v)
    \/ budget /\ \E v \in Typed : editWorkspaceId(v)
    \/ budget /\ addStep
    \/ budget /\ \E idx \in 0..MaxEvents : removeStep(idx)
    \/ budget /\ \E idx \in 0..MaxEvents, str \in DayTyped : editDayOffset(idx, str)
    \/ budget /\ \E idx \in 0..MaxEvents, f \in {"subject", "body"}, v \in Typed :
                    editStepText(idx, f, v)
    \/ budget /\ loadCampaigns
    \/ budget /\ submitWorkspace
    \/ budget /\ submitProspect
    \/ budget /\ generateEmail
    \/ budget /\ submitCampaign
    \/ budget /\ \E type \in EventTypes : trackEvent(type)
    \/ \E req \in network : fetchRejects(req)
    \/ \E req \in network : \E resp \in Responses(req.method, req.path) : respond(req, resp)

Spec == Init /\ [][Next]_vars

(* The campaign form alone: the mount effect, tab selection and the edits  *)
(* of the "Create campaign" section, while the backend stays silent.       *)

formBudget == events < MaxFormEvents

NextForm ==
    \/ mount
    \/ formBudget /\ \E t \in Tabs : setTab(t)
    \/ formBudget /\ \E v \in Typed : editName(v)
    \/ formBudget /\ \E v \in Typed : editWorkspaceId(v)
    \/ formBudget /\ addStep
    \/ formBudget /\ \E idx \in 0..MaxFormEvents : removeStep(idx)
    \/ formBudget /\ \E idx \in 0..MaxFormEvents, str \in DayTyped : editDayOffset(idx, str)
    \/ formBudget /\ \E idx \in 0..MaxFormEvents, f \in {"subject", "body"}, v \in Typed :
                        editStepText(idx, f, v)

SpecForm == Init /\ [][NextForm]_vars

----------------------------------------------------------------------------
(* Properties *)

\* The requests action a has outstanding.
outstanding(a) == {r \in network : r.action = a}
\* The outstanding GET /campaigns requests.
loading == {r \in network : r.method = "GET" /\ r.path = "/campaigns"}
\* The outstanding POST /generate requests.
generating == {r \in network : r.method = "POST" /\ r.path = "/generate"}

\* C1: addStep appends exactly one step, leaves the existing steps unchanged,
\* and gives the new step the day_offset of the previous last step plus 2, or 0
\* when the sequence was empty.
C1_AddStepOffset ==
    [][addStep =>
        campaign'.sequence =
            Append(campaign.sequence,
                   [day_offset |-> IF Len(campaign.sequence) = 0 THEN 0
                                   ELSE campaign.sequence[Len(campaign.sequence)].day_offset + 2,
                    subject |-> "", body |-> ""])]_vars

\* C2: removeStep(idx), for idx within the sequence, yields a sequence one
\* shorter that holds the steps at the other indices in their original order,
\* and leaves campaign.name and campaign.workspace_id unchanged.
C2_RemoveStep ==
    [][\A idx \in 0..MaxFormEvents :
        removeStep(idx) =>
            /\ Len(campaign'.sequence) = Len(campaign.sequence) - 1
            /\ \A i \in 1..Len(campaign'.sequence) :
                  campaign'.sequence[i] = campaign.sequence[IF i <= idx THEN i ELSE i + 1]
            /\ campaign'.name = campaign.name
            /\ campaign'.workspace_id = campaign.workspace_id]_vars

\* A middle step has been removed: offsets 0, 2, 4 became 0, 4, with the texts
\* of the two remaining steps filled in.
C2_Witness ==
    /\ Len(campaign.sequence) = 2
    /\ campaign.sequence[1].day_offset = 0
    /\ campaign.sequence[2].day_offset = 4
    /\ campaign.sequence[2].subject = "a"
    /\ events = MaxFormEvents

\* C3: when the backend answers a handler's request with a non-2xx status
\* code, the handler finishes with a status message that contains the code.
C3_StatusContainsCode ==
    [][\A req \in network : \A resp \in Responses(req.method, req.path) :
        (~ok(resp.code) /\ respond(req, resp)) =>
            /\ Contains(status', String(resp.code))
            /\ ~\E r \in network' : r.action = req.action]_vars

\* The list could not be loaded: the backend answered 404.
C3_Witness == status = <<"GET", "/campaigns", "failed:", "404">>

\* C4: when POST /workspaces succeeds with identifier id, campaign.workspace_id
\* becomes id, and campaign.name and campaign.sequence keep the values they
\* have when the response is processed.
C4_WorkspaceIdSet ==
    [][\A req \in network : \A resp \in Responses(req.method, req.path) :
        (req.handler = "submitWorkspace" /\ ~throws(req, resp) /\ respond(req, resp)) =>
            /\ campaign'.workspace_id = JsonParse(resp.text).id
            /\ campaign'.name = campaign.name
            /\ campaign'.sequence = campaign.sequence]_vars

\* The workspace was created and its id stored in a campaign that the user
\* had named after clicking "Create workspace".
C4_Witness ==
    /\ status = <<"Workspace created:", "w2">>
    /\ campaign.workspace_id = "w2"
    /\ campaign.name = "a"

\* C5: at every point in time, at most one request started by the same user
\* action (or by the mount effect) is outstanding.
C5_OneRequestPerAction ==
    \A a \in 0..(events + 1) : Cardinality(outstanding(a)) <= 1

\* submitCampaign's POST has completed and its GET is outstanding, next to the
\* GET of the mount effect.
C5_Witness ==
    /\ \E r \in network : r.caller = "submitCampaign" /\ r.method = "GET"
    /\ outstanding(0) # {}

\* C6: when a handler's request fails (non-2xx answer, or network failure
\* before or while the answer arrives), the handler sets status to the error
\* message, sends no further request, and leaves ws, prospect, gen, preview,
\* campaign and campaigns unchanged.
C6_FailureFrame ==
    [][\A req \in network :
        /\ fetchRejects(req) =>
              /\ status' = FetchFailure
              /\ network' \subseteq network
              /\ UNCHANGED formState
        /\ \A resp \in Responses(req.method, req.path) :
              ((~ok(resp.code) \/ ~resp.readable) /\ respond(req, resp)) =>
                  /\ status' = message(req, resp)
                  /\ network' \subseteq network
                  /\ UNCHANGED formState]_vars

\* A second generation failed after a first one had filled the preview.
C6_Witness ==
    /\ status = <<"POST", "/generate", "failed:", "500", "detail">>
    /\ preview # <<>>

\* C7: get and post throw on every non-2xx answer, with a message that
\* includes the response body; on a 2xx answer neither throws because of the
\* status.  (Every handler copies the thrown message to status.)
C7_ErrorIncludesBody ==
    [][\A req \in network : \A resp \in Responses(req.method, req.path) :
        respond(req, resp) =>
            /\ ~ok(resp.code) =>
                  /\ throws(req, resp)
                  /\ status' = message(req, resp)
                  /\ Contains(status', resp.text)
            /\ (ok(resp.code) /\ resp.readable /\ parses(resp.text)) => ~throws(req, resp)]_vars

\* C8: loadingCampaigns is true whenever a GET /campaigns is outstanding.
C8_LoadingWhileOutstanding == loading # {} => loadingCampaigns

\* C8, amended: issuing a GET /campaigns makes loadingCampaigns true, and it
\* stays true until a GET /campaigns request completes.
C8_LoadingUntilFirstCompletion ==
    [][/\ (loading' \ loading # {}) => loadingCampaigns'
       /\ (loadingCampaigns /\ loading \subseteq loading') => loadingCampaigns']_vars

\* Two GET /campaigns requests are outstanding and none has completed since
\* the later one was issued.
C8_Witness == loadingCampaigns /\ Cardinality(loading) = 2

\* C9: at most one POST /generate is outstanding, and loadingGen is true
\* exactly while it is outstanding (so it is false again once the request has
\* completed, whether it succeeded or failed).
C9_GenerateExclusive ==
    /\ Cardinality(generating) <= 1
    /\ loadingGen <=> generating # {}

\* A generation failed and the button is enabled again.
C9_Witness ==
    /\ status = <<"POST", "/generate", "failed:", "404", "">>
    /\ ~loadingGen
    /\ generating = {}

\* C10: a successful POST /campaigns of submitCampaign is followed by exactly
\* one GET /campaigns of the same action and a failed one by none; when that
\* GET succeeds campaigns is its response, and when it fails the status is the
\* GET's error message.
C10_ReloadAfterCreate ==
    [][/\ \A req \in network :
            /\ req.handler = "submitCampaign" =>
                  /\ fetchRejects(req) => ~\E r \in network' : r.action = req.action
                  /\ \A resp \in Responses(req.method, req.path) :
                        respond(req, resp) =>
                            IF throws(req, resp)
                            THEN ~\E r \in network' : r.action = req.action
                            ELSE {r \in network' : r.action = req.action}
                                    = {get(req.action, "loadCampaigns", "submitCampaign",
                                           "/campaigns")}
            /\ req.caller = "submitCampaign" =>
                  /\ fetchRejects(req) =>
                        /\ status' = FetchFailure
                        /\ ~\E r \in network' : r.action = req.action
                  /\ \A resp \in Responses(req.method, req.path) :
                        respond(req, resp) =>
                            /\ ~\E r \in network' : r.action = req.action
                            /\ IF throws(req, resp)
                               THEN status' = message(req, resp) /\ status'[1] # "Campaign created:"
                               ELSE campaigns' = JsonParse(resp.text)
       /\ \A r \in network' \ network :
            r.caller = "submitCampaign" =>
                \E req \in network \ network' :
                    req.handler = "submitCampaign" /\ req.action = r.action]_vars

\* The campaign was created and its reload is outstanding.
C10_Witness ==
    /\ status = <<"Campaign created:", "x1">>
    /\ \E r \in network : r.caller = "submitCampaign" /\ r.action = events

====
